---- MODULE Spec2Model ----
(***************************************************************************)
(* Model of calendarapp/views.py: the month view of the calendar app.     *)
(* month_view reads ?year=&month= from the query, normalises them with    *)
(* _parse_year_month, formats the month name, computes the previous and   *)
(* next month for navigation and builds the Sunday-first month grid with  *)
(* _build_month_grid.  The datetime and calendar library calls the view   *)
(* makes are modelled by the arithmetic they perform (proleptic Gregorian *)
(* ordinals), including the exceptions they raise.                        *)
(***************************************************************************)
EXTENDS Integers, Sequences, FiniteSets, TLC

VARIABLES pc, GET, today, year, month, month_name, prev_month, next_month,
          weeks, err

vars == <<pc, GET, today, year, month, month_name, prev_month, next_month,
          weeks, err>>

(***************************************************************************)
(* Bounds of the model: the run of consecutive years the inputs cover.    *)
(***************************************************************************)
FirstYear == 1995
YearSpan == 34

(***************************************************************************)
(* Library constants.                                                      *)
(***************************************************************************)
MINYEAR == 1
MAXYEAR == 9999
_MAXORDINAL == 3652059
_DI400Y == 146097
_DI100Y == 36524
_DI4Y == 1461
SUNDAY == 6
FEBRUARY == 2

_DAYS_IN_MONTH == <<31, 28, 31, 30, 31, 30, 31, 31, 30, 31, 30, 31>>
_DAYS_BEFORE_MONTH == <<0, 31, 59, 90, 120, 151, 181, 212, 243, 273, 304, 334>>
mdays == <<31, 28, 31, 30, 31, 30, 31, 31, 30, 31, 30, 31>>
month_names == <<"January", "February", "March", "April", "May", "June", "July",
                 "August", "September", "October", "November", "December">>

(***************************************************************************)
(* int(): Python's conversion of a query string to an integer.  A string  *)
(* is a sequence of one-character strings.  int() strips surrounding      *)
(* whitespace, accepts one optional sign, then needs a non-empty run of   *)
(* decimal digits in which single underscores may separate digits;        *)
(* anything else raises ValueError.                                       *)
(***************************************************************************)
Digits == {"0", "1", "2", "3", "4", "5", "6", "7", "8", "9"}
DigitVal == ("0" :> 0) @@ ("1" :> 1) @@ ("2" :> 2) @@ ("3" :> 3) @@ ("4" :> 4) @@
            ("5" :> 5) @@ ("6" :> 6) @@ ("7" :> 7) @@ ("8" :> 8) @@ ("9" :> 9)
DigitChar == <<"0", "1", "2", "3", "4", "5", "6", "7", "8", "9">>
Whitespace == {" "}

RECURSIVE lstrip(_)
lstrip(s) ==
    IF s # <<>> /\ Head(s) \in Whitespace THEN lstrip(Tail(s)) ELSE s

RECURSIVE rstrip(_)
rstrip(s) ==
    IF s # <<>> /\ s[Len(s)] \in Whitespace
    THEN rstrip(SubSeq(s, 1, Len(s) - 1)) ELSE s

strip(s) == rstrip(lstrip(s))

\* The digit part is well formed: it starts and ends with a digit and every
\* underscore stands between two digits.
digits_ok(s) ==
    /\ s # <<>>
    /\ \A i \in 1..Len(s) : s[i] \in Digits \cup {"_"}
    /\ s[1] \in Digits
    /\ s[Len(s)] \in Digits
    /\ \A i \in 1..(Len(s) - 1) : ~(s[i] = "_" /\ s[i + 1] = "_")

RECURSIVE digits_value(_, _)
digits_value(s, acc) ==
    IF s = <<>> THEN acc
    ELSE IF Head(s) = "_" THEN digits_value(Tail(s), acc)
    ELSE digits_value(Tail(s), acc * 10 + DigitVal[Head(s)])

\* int(text): [ok |-> TRUE, val |-> n], or ok = FALSE for ValueError.
int(text) ==
    LET s == strip(text)
        signed == s # <<>> /\ Head(s) \in {"+", "-"}
        body == IF signed THEN Tail(s) ELSE s
    IN  IF ~digits_ok(body) THEN [ok |-> FALSE, val |-> 0]
        ELSE [ok |-> TRUE,
              val |-> IF signed /\ Head(s) = "-"
                      THEN 0 - digits_value(body, 0)
                      ELSE digits_value(body, 0)]

\* The decimal text of an integer (used to write the query inputs).
RECURSIVE nat_text(_)
nat_text(n) ==
    IF n < 10 THEN <<DigitChar[n + 1]>>
    ELSE nat_text(n \div 10) \o <<DigitChar[(n % 10) + 1]>>

int_text(n) == IF n < 0 THEN <<"-">> \o nat_text(0 - n) ELSE nat_text(n)

(***************************************************************************)
(* datetime: proleptic Gregorian ordinals (day 1 = 0001-01-01).           *)
(***************************************************************************)
_is_leap(y) == y % 4 = 0 /\ (y % 100 # 0 \/ y % 400 = 0)

_days_before_year(y) ==
    (y - 1) * 365 + ((y - 1) \div 4) - ((y - 1) \div 100) + ((y - 1) \div 400)

_days_in_month(y, m) ==
    IF m = 2 /\ _is_leap(y) THEN 29 ELSE _DAYS_IN_MONTH[m]

_days_before_month(y, m) ==
    _DAYS_BEFORE_MONTH[m] + (IF m > 2 /\ _is_leap(y) THEN 1 ELSE 0)

_ymd2ord(y, m, d) == _days_before_year(y) + _days_before_month(y, m) + d

\* ordinal -> (year, month, day), as datetime._ord2ymd computes it.
_ord2ymd(ordinal) ==
    LET n0 == ordinal - 1
        n400 == n0 \div _DI400Y
        na == n0 % _DI400Y
        n100 == na \div _DI100Y
        nb == na % _DI100Y
        n4 == nb \div _DI4Y
        nc == nb % _DI4Y
        n1 == nc \div 365
        n == nc % 365
        y == n400 * 400 + 1 + n100 * 100 + n4 * 4 + n1
        leapyear == n1 = 3 /\ (n4 # 24 \/ n100 = 3)
        m0 == (n + 50) \div 32
        p0 == _DAYS_BEFORE_MONTH[m0] + (IF m0 > 2 /\ leapyear THEN 1 ELSE 0)
        m == IF p0 > n THEN m0 - 1 ELSE m0
        p == IF p0 > n
             THEN p0 - (_DAYS_IN_MONTH[m] + (IF m = 2 /\ leapyear THEN 1 ELSE 0))
             ELSE p0
    IN  IF n1 = 4 \/ n100 = 4
        THEN [year |-> y - 1, month |-> 12, day |-> 31]
        ELSE [year |-> y, month |-> m, day |-> n - p + 1]

NoDate == [year |-> 0, month |-> 0, day |-> 0]

\* dt.date(y, m, d) raises ValueError unless the fields name a real day.
date_ok(y, m, d) ==
    /\ MINYEAR <= y /\ y <= MAXYEAR
    /\ 1 <= m /\ m <= 12
    /\ 1 <= d /\ d <= _days_in_month(y, m)

date(y, m, d) == [year |-> y, month |-> m, day |-> d]

toordinal(dd) == _ymd2ord(dd.year, dd.month, dd.day)

\* date + timedelta(days): OverflowError outside 1.._MAXORDINAL.
add_ok(dd, days) ==
    LET o == toordinal(dd) + days IN 0 < o /\ o <= _MAXORDINAL

add_days(dd, days) == _ord2ymd(toordinal(dd) + days)

replace_day(dd, d) == date(dd.year, dd.month, d)

date_weekday(dd) == (toordinal(dd) + 6) % 7

(***************************************************************************)
(* calendar: Calendar(firstweekday).monthdayscalendar.                     *)
(***************************************************************************)
\* Variant: the Julian rule, every fourth year a leap year.
isleap_every_fourth(y) == y % 4 = 0

isleap(y) == y % 4 = 0 /\ (y % 100 # 0 \/ y % 400 = 0)

\* calendar.weekday: Monday = 0 .. Sunday = 6; a year outside the datetime
\* range is folded into the 400-year cycle first.
weekday(y, m, d) ==
    LET yy == IF MINYEAR <= y /\ y <= MAXYEAR THEN y ELSE 2000 + (y % 400)
    IN  date_weekday(date(yy, m, d))

\* calendar.monthrange: <<weekday of day 1, number of days>>.
monthrange(y, m) ==
    <<weekday(y, m, 1),
      mdays[m] + (IF m = FEBRUARY /\ isleap(y) THEN 1 ELSE 0)>>

zeros(k) == [i \in 1..k |-> 0]

\* Calendar.itermonthdays: zeros before day 1, the days, zeros after.
itermonthdays(firstweekday, y, m) ==
    LET day1 == monthrange(y, m)[1]
        ndays == monthrange(y, m)[2]
        days_before == (day1 - firstweekday) % 7
        days_after == (firstweekday - day1 - ndays) % 7
    IN  zeros(days_before) \o [i \in 1..ndays |-> i] \o zeros(days_after)

\* Calendar.monthdayscalendar: the day numbers cut into rows of seven.
monthdayscalendar(firstweekday, y, m) ==
    LET days == itermonthdays(firstweekday, y, m)
        rows == (Len(days) + 6) \div 7
    IN  [w \in 1..rows |->
            SubSeq(days, 7 * (w - 1) + 1,
                   IF 7 * w < Len(days) THEN 7 * w ELSE Len(days))]

(***************************************************************************)
(* views.py                                                                *)
(***************************************************************************)
None == NoDate

DayCell(day_num, d) == [day |-> day_num, date |-> d]

\* Variant: every day cell carries the date of the first of the month.
make_cell_first_day(y, m, day_num) ==
    IF day_num = 0 THEN DayCell(0, None)
    ELSE DayCell(day_num, date(y, m, 1))

\* One cell of a row (the body of the inner loop of _build_month_grid).
make_cell(y, m, day_num) ==
    IF day_num = 0 THEN DayCell(0, None)
    ELSE DayCell(day_num, date(y, m, day_num))

\* line 45: cal = calendar.Calendar(firstweekday=calendar.SUNDAY)
\* Variant: the library's default first weekday, Monday.
cal_firstweekday_monday == (SUNDAY + 1) % 7
cal_firstweekday == SUNDAY

\* _build_month_grid returns normally: the month is one calendar accepts and
\* every dt.date(year, month, day_num) it constructs is a real date.
build_month_grid_ok(y, m) ==
    /\ 1 <= m /\ m <= 12
    /\ \A i \in 1..Len(itermonthdays(cal_firstweekday, y, m)) :
          LET day_num == itermonthdays(cal_firstweekday, y, m)[i]
          IN  day_num # 0 => date_ok(y, m, day_num)

\* Variant: padding days are skipped instead of appended as cells.
_build_month_grid_skip_padding(y, m) ==
    LET cal == monthdayscalendar(cal_firstweekday, y, m)
    IN  [w \in 1..Len(cal) |->
            LET days == SelectSeq(cal[w], LAMBDA day_num : day_num # 0)
            IN  [c \in 1..Len(days) |-> make_cell(y, m, days[c])]]

\* Variant: weeks.append(row) runs once, after the loop over the weeks.
_build_month_grid_last_row(y, m) ==
    LET cal == monthdayscalendar(cal_firstweekday, y, m)
        w == Len(cal)
    IN  << [c \in 1..Len(cal[w]) |-> make_cell(y, m, cal[w][c])] >>

_build_month_grid(y, m) ==
    LET cal == monthdayscalendar(cal_firstweekday, y, m)
    IN  [w \in 1..Len(cal) |->
            [c \in 1..Len(cal[w]) |-> make_cell(y, m, cal[w][c])]]

\* request.GET.get(key, default) followed by int(): a missing key gives the
\* default (an integer of today), a present one is parsed.
get_int(param, default) ==
    IF param.present THEN int(param.text) ELSE [ok |-> TRUE, val |-> default]

\* Variant: a missing parameter also sends both values back to today.
_parse_year_month_whole_fallback(query, now) ==
    LET y == get_int(query.year, now.year)
        m == get_int(query.month, now.month)
    IN  IF ~query.year.present \/ ~query.month.present
        THEN <<now.year, now.month>>
        ELSE IF ~y.ok THEN <<now.year, now.month>>
        ELSE IF ~m.ok THEN <<now.year, now.month>>
        ELSE IF m.val < 1 \/ m.val > 12 THEN <<now.year, now.month>>
        ELSE <<y.val, m.val>>

\* Variant: a month out of range replaces the month alone.
_parse_year_month_keep_year(query, now) ==
    LET y == get_int(query.year, now.year)
        m == get_int(query.month, now.month)
    IN  IF ~y.ok THEN <<now.year, now.month>>
        ELSE IF ~m.ok THEN <<now.year, now.month>>
        ELSE IF m.val < 1 \/ m.val > 12 THEN <<y.val, now.month>>
        ELSE <<y.val, m.val>>

\* Variant: the range test rejects December (month >= 12).
_parse_year_month_no_december(query, now) ==
    LET y == get_int(query.year, now.year)
        m == get_int(query.month, now.month)
    IN  IF ~y.ok THEN <<now.year, now.month>>
        ELSE IF ~m.ok THEN <<now.year, now.month>>
        ELSE IF m.val < 1 \/ m.val >= 12 THEN <<now.year, now.month>>
        ELSE <<y.val, m.val>>

\* _parse_year_month: <<year, month>>.  A ValueError from either int() or
\* from the month range test is caught and replaced by today's year and month.
_parse_year_month(query, now) ==
    LET y == get_int(query.year, now.year)
        m == get_int(query.month, now.month)
    IN  IF ~y.ok THEN <<now.year, now.month>>
        ELSE IF ~m.ok THEN <<now.year, now.month>>
        ELSE IF m.val < 1 \/ m.val > 12 THEN <<now.year, now.month>>
        ELSE <<y.val, m.val>>

\* prev_month = (first - timedelta(days=1)).replace(day=1)
prev_month_of(first) == replace_day(add_days(first, 0 - 1), 1)

\* Variant: day 28 plus three days, which stays inside a 31-day month.
next_month_of_three_days(first) ==
    replace_day(add_days(replace_day(first, 28), 3), 1)

\* next_month = (first.replace(day=28) + timedelta(days=4)).replace(day=1)
next_month_of(first) == replace_day(add_days(replace_day(first, 28), 4), 1)

(***************************************************************************)
(* The inputs of a request.                                                *)
(***************************************************************************)
Missing == [present |-> FALSE, text |-> <<>>]
Param(t) == [present |-> TRUE, text |-> t]

Years == (FirstYear..(FirstYear + YearSpan))
         \cup {0 - 1, 0, 1, 2, 400, 1900, 2100, 9998, 9999, 10000}

OddTexts == { <<>>, <<"a", "b", "c">>, <<"-">>, <<"1", ".", "5">>,
              <<"2", "0", "_">>, <<"1", "_", "_", "1">>, <<"1", " ", "1">>,
              <<" ", "7", " ">>, <<"+", "0", "8">>, <<"1", "_", "1">> }

YearParams == {Missing} \cup {Param(int_text(y)) : y \in Years}
                        \cup {Param(t) : t \in OddTexts}

MonthParams == {Missing} \cup {Param(int_text(m)) : m \in (0 - 1)..14}
                         \cup {Param(t) : t \in OddTexts}

Todays == {date(2026, 11, 5), date(2024, 2, 29)}

(***************************************************************************)
(* month_view, one action per statement group.                             *)
(***************************************************************************)
Init ==
    /\ pc = "parse"
    /\ GET \in [year : YearParams, month : MonthParams]
    /\ today \in Todays
    /\ year = 0
    /\ month = 0
    /\ month_name = ""
    /\ prev_month = NoDate
    /\ next_month = NoDate
    /\ weeks = <<>>
    /\ err = "none"

\* line 61: year, month = _parse_year_month(request)
ParseYearMonth ==
    /\ pc = "parse"
    /\ year' = _parse_year_month(GET, today)[1]
    /\ month' = _parse_year_month(GET, today)[2]
    /\ pc' = "month_name"
    /\ UNCHANGED <<GET, today, month_name, prev_month, next_month, weeks, err>>

\* line 62: month_name = dt.date(year, month, 1).strftime("%B")
MonthName ==
    /\ pc = "month_name"
    /\ IF date_ok(year, month, 1)
       THEN /\ month_name' = month_names[month]
            /\ pc' = "adjacent"
            /\ err' = err
       ELSE /\ month_name' = month_name
            /\ pc' = "raised"
            /\ err' = "ValueError"
    /\ UNCHANGED <<GET, today, year, month, prev_month, next_month, weeks>>

\* lines 65-67: first, prev_month, next_month
AdjacentMonths ==
    /\ pc = "adjacent"
    /\ LET first == date(year, month, 1)
       IN  IF ~date_ok(year, month, 1)
           THEN /\ pc' = "raised"
                /\ err' = "ValueError"
                /\ UNCHANGED <<prev_month, next_month>>
           ELSE IF ~add_ok(first, 0 - 1)
           THEN /\ pc' = "raised"
                /\ err' = "OverflowError"
                /\ UNCHANGED <<prev_month, next_month>>
           ELSE IF ~add_ok(replace_day(first, 28), 4)
           THEN /\ pc' = "raised"
                /\ err' = "OverflowError"
                /\ prev_month' = prev_month_of(first)
                /\ next_month' = next_month
           ELSE /\ pc' = "grid"
                /\ err' = err
                /\ prev_month' = prev_month_of(first)
                /\ next_month' = next_month_of(first)
    /\ UNCHANGED <<GET, today, year, month, month_name, weeks>>

\* line 73: "weeks": _build_month_grid(year, month)
BuildMonthGrid ==
    /\ pc = "grid"
    /\ IF build_month_grid_ok(year, month)
       THEN /\ weeks' = _build_month_grid(year, month)
            /\ pc' = "render"
            /\ err' = err
       ELSE /\ weeks' = weeks
            /\ pc' = "raised"
            /\ err' = "ValueError"
    /\ UNCHANGED <<GET, today, year, month, month_name, prev_month, next_month>>

\* lines 69-80: the context is handed to the template.
Render ==
    /\ pc = "render"
    /\ pc' = "done"
    /\ UNCHANGED <<GET, today, year, month, month_name, prev_month, next_month,
                   weeks, err>>

Next == ParseYearMonth \/ MonthName \/ AdjacentMonths \/ BuildMonthGrid \/ Render

Spec == Init /\ [][Next]_vars

(***************************************************************************)
(* _build_month_grid called on its own with a (year, month) pair.          *)
(***************************************************************************)
GridInit ==
    /\ pc = "grid"
    /\ GET = [year |-> Missing, month |-> Missing]
    /\ today \in Todays
    /\ year \in Years
    /\ month \in 1..12
    /\ month_name = ""
    /\ prev_month = NoDate
    /\ next_month = NoDate
    /\ weeks = <<>>
    /\ err = "none"

GridNext == BuildMonthGrid

GridSpec == GridInit /\ [][GridNext]_vars

(***************************************************************************)
(* Notions the properties are stated in, defined apart from the model.     *)
(***************************************************************************)
Parsed == pc # "parse"

BothToday == year = today.year /\ month = today.month

\* The Gregorian rule as the specification words it.
GregorianLeap(y) == (y % 4 = 0 /\ y % 100 # 0) \/ y % 400 = 0

DaysInMonthRule(y, m) ==
    IF m \in {4, 6, 9, 11} THEN 30
    ELSE IF m = 2 THEN (IF GregorianLeap(y) THEN 29 ELSE 28)
    ELSE 31

\* Zeller's congruence, turned to Sunday = 0 .. Saturday = 6.
SundayIndex(y, m, d) ==
    LET mm == IF m < 3 THEN m + 12 ELSE m
        yy == IF m < 3 THEN y - 1 ELSE y
        K == yy % 100
        J == yy \div 100
        h == (d + ((13 * (mm + 1)) \div 5) + K + (K \div 4) + (J \div 4) + 5 * J) % 7
    IN  (h + 6) % 7

ValidYearMonth == MINYEAR <= year /\ year <= MAXYEAR /\ month \in 1..12

\* The grid read week by week, left to right.
RECURSIVE Flat(_)
Flat(g) == IF g = <<>> THEN <<>> ELSE Head(g) \o Flat(Tail(g))

DayValues(g) == [i \in 1..Len(Flat(g)) |-> Flat(g)[i].day]

NonZero(seq) == SelectSeq(seq, LAMBDA v : v # 0)

GridBuilt == pc = "render" /\ weeks # <<>>

(***************************************************************************)
(* C1 (as stated): whenever the year or the month parameter is missing,   *)
(* _parse_year_month returns today's year and today's month, both from    *)
(* today, even when the other parameter is present and valid.             *)
(***************************************************************************)
C1_MissingGivesBothToday ==
    (Parsed /\ (~GET.year.present \/ ~GET.month.present)) => BothToday

(***************************************************************************)
(* C1 (amended): when a parameter is missing, that component of the       *)
(* result comes from today; the other component is kept when it is        *)
(* present and valid (numeric, and for a month within 1..12), and only    *)
(* otherwise comes from today as well.                                     *)
(***************************************************************************)
C1_MissingDefaultsThatValueOnly ==
    Parsed =>
        /\ ~GET.year.present => year = today.year
        /\ ~GET.month.present => month = today.month
        /\ (~GET.month.present /\ GET.year.present) =>
              IF int(GET.year.text).ok
              THEN year = int(GET.year.text).val
              ELSE year = today.year
        /\ (~GET.year.present /\ GET.month.present) =>
              IF int(GET.month.text).ok /\ int(GET.month.text).val \in 1..12
              THEN month = int(GET.month.text).val
              ELSE month = today.month
        /\ \A y \in Years :
              (GET = [year |-> Param(int_text(y)), month |-> Missing])
                  => (year = y /\ month = today.month)

C1_Witness ==
    /\ Parsed
    /\ GET = [year |-> Param(<<"2", "0", "2", "0">>), month |-> Missing]
    /\ year = 2020
    /\ year # today.year
    /\ month = today.month

(***************************************************************************)
(* C2: with both parameters present, a non-numeric year, a non-numeric    *)
(* month or a month outside 1..12 makes _parse_year_month return today's  *)
(* year and month, the year too even if the supplied year was an integer. *)
(***************************************************************************)
C2_InvalidGivesBothToday ==
    (/\ Parsed
     /\ GET.year.present
     /\ GET.month.present
     /\ \/ ~int(GET.year.text).ok
        \/ ~int(GET.month.text).ok
        \/ int(GET.month.text).val < 1
        \/ int(GET.month.text).val > 12)
    => BothToday

C2_Witness ==
    /\ Parsed
    /\ GET = [year |-> Param(<<"2", "0", "2", "0">>),
              month |-> Param(<<"1", "3">>)]
    /\ today.year = 2026
    /\ year = 2026
    /\ month = 11

(***************************************************************************)
(* C3: month_view never raises: whatever the two parameters are, the      *)
(* steps parse, month name, adjacent months and grid all complete.        *)
(***************************************************************************)
C3_NoOperationRaises == pc # "raised" /\ err = "none"

(***************************************************************************)
(* C4: for every valid (year, month) _build_month_grid returns a grid of  *)
(* 4 to 6 weeks, each of exactly 7 cells.                                  *)
(***************************************************************************)
C4_WeeksOfSeven ==
    (ValidYearMonth /\ pc # "grid") =>
        /\ pc = "render"
        /\ Len(weeks) \in 4..6
        /\ \A w \in 1..Len(weeks) : Len(weeks[w]) = 7

C4_Witness ==
    /\ GridBuilt
    /\ Len(weeks) = 4
    /\ \A w \in 1..4 : Len(weeks[w]) = 7

(***************************************************************************)
(* C5: read week by week and left to right, the non-zero day values of    *)
(* the grid are exactly 1, 2, ..., daysInMonth(year, month).              *)
(***************************************************************************)
C5_DaysOnceInOrder ==
    GridBuilt =>
        NonZero(DayValues(weeks)) = [i \in 1..DaysInMonthRule(year, month) |-> i]

C5_Witness ==
    /\ GridBuilt
    /\ month = 4
    /\ Len(NonZero(DayValues(weeks))) = 30
    /\ NonZero(DayValues(weeks))[30] = 30

(***************************************************************************)
(* C6: a February grid has a cell with day 29 iff the year is a Gregorian *)
(* leap year; February 2024 has 5 weeks and ends on 29, February 2023     *)
(* ends on 28, 1900 has no 29 and 2000 has one.                            *)
(***************************************************************************)
C6_LeapFebruary ==
    (ValidYearMonth /\ month = 2 /\ pc # "grid") =>
        LET days == NonZero(DayValues(weeks))
            has29 == \E i \in 1..Len(days) : days[i] = 29
        IN  /\ GridBuilt
            /\ has29 <=> GregorianLeap(year)
            /\ year = 2024 => (Len(weeks) = 5 /\ days[Len(days)] = 29)
            /\ year = 2023 => days[Len(days)] = 28
            /\ year = 1900 => ~has29
            /\ year = 2000 => has29

C6_Witness ==
    /\ GridBuilt
    /\ month = 2
    /\ year = 2024
    /\ weeks[5][5].day = 29

(***************************************************************************)
(* C7: for every valid (year, month) the navigation targets are the month *)
(* before and the month after: prev = (year, month-1), or (year-1, 12)    *)
(* for January; next = (year, month+1), or (year+1, 1) for December.      *)
(* Stated of every request whose parsed pair is a valid date and whose    *)
(* prev/next step has run.                                                 *)
(***************************************************************************)
C7_AdjacentMonths ==
    (ValidYearMonth /\ pc \in {"grid", "render", "done", "raised"}) =>
        /\ prev_month.year = (IF month > 1 THEN year ELSE year - 1)
        /\ prev_month.month = (IF month > 1 THEN month - 1 ELSE 12)
        /\ next_month.year = (IF month < 12 THEN year ELSE year + 1)
        /\ next_month.month = (IF month < 12 THEN month + 1 ELSE 1)

(***************************************************************************)
(* C7, where the step returns: whenever lines 65-67 complete, prev and    *)
(* next are the neighbouring months (with the two examples of 2024), and  *)
(* the step fails only for January of MINYEAR and December of MAXYEAR.    *)
(***************************************************************************)
C7_AdjacentMonthsWhenReturned ==
    /\ pc \in {"grid", "render", "done"} =>
          /\ prev_month = IF month > 1 THEN date(year, month - 1, 1)
                          ELSE date(year - 1, 12, 1)
          /\ next_month = IF month < 12 THEN date(year, month + 1, 1)
                          ELSE date(year + 1, 1, 1)
          /\ (year = 2024 /\ month = 1) =>
                (prev_month = date(2023, 12, 1) /\ next_month = date(2024, 2, 1))
          /\ (year = 2024 /\ month = 12) =>
                (prev_month = date(2024, 11, 1) /\ next_month = date(2025, 1, 1))
    /\ (pc = "raised" /\ month_name # "") =>
          (<<year, month>> \in {<<MINYEAR, 1>>, <<MAXYEAR, 12>>})

(***************************************************************************)
(* C8: in every cell of the grid, date is present iff day # 0, and a      *)
(* present date has the cell's day and the requested month and year.      *)
(***************************************************************************)
C8_DayCellInvariant ==
    GridBuilt =>
        \A w \in 1..Len(weeks) : \A c \in 1..Len(weeks[w]) :
            LET cell == weeks[w][c]
            IN  /\ (cell.date # None) <=> (cell.day # 0)
                /\ cell.day # 0 =>
                      /\ cell.date.day = cell.day
                      /\ cell.date.month = month
                      /\ cell.date.year = year
                /\ cell.day = 0 => cell.date = None

C8_Witness ==
    /\ GridBuilt
    /\ weeks[1][1] = DayCell(0, None)
    /\ weeks[2][1].day # 0
    /\ weeks[2][1].date = date(year, month, weeks[2][1].day)

(***************************************************************************)
(* C9: day d sits in the column of its weekday counted from Sunday = 0;   *)
(* padding is one run before day 1 in the first week and one run after    *)
(* the last day in the last week, and no week is padding only.            *)
(***************************************************************************)
C9_SundayLayout ==
    GridBuilt =>
        LET days == DayValues(weeks)
            n == Len(days)
        IN  /\ \A i \in 1..n :
                  days[i] # 0 => (i - 1) % 7 = SundayIndex(year, month, days[i])
            /\ \E a \in 1..7 : \E b \in (n - 6)..n :
                  /\ a <= b
                  /\ \A i \in 1..n : (days[i] = 0) <=> (i < a \/ i > b)
            /\ \A w \in 1..Len(weeks) :
                  \E c \in 1..Len(weeks[w]) : weeks[w][c].day # 0

C9_Witness ==
    /\ GridBuilt
    /\ year = 2024
    /\ month = 2
    /\ weeks[1][5].day = 1
    /\ weeks[1][4].day = 0
    /\ weeks[5][6].day = 0

(***************************************************************************)
(* C10: two present parameters that parse as integers with the month in   *)
(* 1..12 are returned as they are, whatever today is; and the returned    *)
(* month always lies in 1..12.                                             *)
(***************************************************************************)
C10_ValidInputHonoured ==
    Parsed =>
        /\ month \in 1..12
        /\ (/\ GET.year.present
            /\ GET.month.present
            /\ int(GET.year.text).ok
            /\ int(GET.month.text).ok
            /\ int(GET.month.text).val \in 1..12)
           => (/\ year = int(GET.year.text).val
               /\ month = int(GET.month.text).val)
        /\ \A y \in Years : \A m \in 1..12 :
              (GET = [year |-> Param(int_text(y)), month |-> Param(int_text(m))])
                  => (year = y /\ month = m)

C10_Witness ==
    /\ Parsed
    /\ GET = [year |-> Param(<<"1", "9", "9", "9">>),
              month |-> Param(<<"1", "2">>)]
    /\ year = 1999
    /\ month = 12
    /\ year # today.year
    /\ month # today.month
====
